---- MODULE Spec2Model ----
(***************************************************************************)
(* News search widget (namespaced implementation of app.js): the request / *)
(* response / render lifecycle and the UI state it drives.                 *)
(*                                                                         *)
(* Every handler runs to completion on the UI event loop, so each action   *)
(* is one whole handler: DOMContentLoaded, form submit, XHR load, XHR      *)
(* error.  The listeners for DOMContentLoaded and submit are registered    *)
(* together (app.js 615, 623), so nothing in the code orders the two       *)
(* events, and the submit handler does not look at the submit control.     *)
(***************************************************************************)
EXTENDS Integers, Sequences, FiniteSets, TLC

(* ------------------------------ bounds --------------------------------- *)
MaxRequests == 2
MaxArticles == 2
MaxCount == 5          \* longest array length handed to a template on its own
MaxCards == 4          \* most cards in the content region under direct render calls

(* ------------------------- values of the model ------------------------- *)
\* an absent (undefined) field of an article
NoValue == "<undefined>"

Falsy(v) == v \in {NoValue, ""}

\* `${v}` of a template literal
Str(v) == IF v = NoValue THEN "undefined" ELSE v

Articles ==
    { [title |-> "t1", description |-> "d1", url |-> "u1", urlToImage |-> "i1"],
      [title |-> "t2", description |-> NoValue, url |-> "u2", urlToImage |-> NoValue] }

RECURSIVE SeqsUpTo(_, _)
SeqsUpTo(S, n) ==
    IF n = 0 THEN { <<>> }
    ELSE LET shorter == SeqsUpTo(S, n - 1)
         IN  shorter \cup { Append(s, x) : s \in { t \in shorter : Len(t) = n - 1 }, x \in S }

ArticleLists == SeqsUpTo(Articles, MaxArticles)

\* status codes a load event can carry: a success and the codes next to the
\* range the listener takes as success
Statuses == {199, 200, 300}

\* response bodies: not JSON, JSON without an articles array, JSON with one
ResponseTexts ==
    { [valid |-> FALSE, hasArticles |-> FALSE, articles |-> <<>>],
      [valid |-> TRUE,  hasArticles |-> FALSE, articles |-> <<>>] }
    \cup { [valid |-> TRUE, hasArticles |-> TRUE, articles |-> a] : a \in ArticleLists }

\* what the user can select and type; the defaults of getTopHeadlines are "ru", "technology"
Countries  == {"us"}
Categories == {"sports"}
SearchTexts == {"", "bitcoin"}

\* the text input takes any characters, the separators of a query string too
TypedTexts == SearchTexts \cup {"bitcoin&country=ru"}

(* ---------------------------- conversions ------------------------------ *)
Digit(d) == <<"0", "1", "2", "3", "4", "5", "6", "7", "8", "9">>[d + 1]

\* `${xhr.status}`: the decimal digits of a non-negative integer
RECURSIVE NumberToString(_)
NumberToString(n) ==
    IF n < 10 THEN << Digit(n) >>
    ELSE Append(NumberToString(n \div 10), Digit(n % 10))

\* JSON.parse(xhr.responseText): throws on text that is not JSON
JSONparse(text) ==
    IF text.valid
    THEN [threw |-> FALSE, kind |-> "json", hasArticles |-> text.hasArticles, articles |-> text.articles]
    ELSE [threw |-> TRUE,  kind |-> "none", hasArticles |-> FALSE, articles |-> <<>>]

NoError == <<>>
NoResult == [kind |-> "none", hasArticles |-> FALSE, articles |-> <<>>]
XhrObject == [kind |-> "xhr", hasArticles |-> FALSE, articles |-> <<>>]
JsonResult(p) == [kind |-> "json", hasArticles |-> p.hasArticles, articles |-> p.articles]

(* ------------------------------- state --------------------------------- *)
VARIABLES
    body,                  \* children of document.body, first child first
    searchButtonDisabled,  \* render.searchButton.disabled
    newsContent,           \* children of the content region, first child first
    toasts,                \* the M.toast calls made so far
    requests,              \* the XHR requests sent so far
    domLoaded,             \* DOMContentLoaded has fired
    lastEvent,             \* history: the handler that ran last and what it passed on
    lastGood,              \* history: articles of the last 2xx response with a non-empty articles array
    searchForm,            \* values of the form controls searchCountry, searchCategory, searchText
    viewCall,              \* history: the view function called directly last, its arguments and result
    simplePage             \* the page as driven by the simpler implementation (app.js 33-172)

vars == <<body, searchButtonDisabled, newsContent, toasts, requests, domLoaded, lastEvent, lastGood,
          searchForm, viewCall, simplePage>>

\* the mutable page as one value, threaded through the functions of the code
Page == [body |-> body, disabled |-> searchButtonDisabled, content |-> newsContent,
         toasts |-> toasts, requests |-> requests,
         call |-> [err |-> NoError, res |-> NoResult]]

SetPage(p) ==
    /\ body' = p.body
    /\ searchButtonDisabled' = p.disabled
    /\ newsContent' = p.content
    /\ toasts' = p.toasts
    /\ requests' = p.requests

PreloaderEl == "progress"
PageEl == "page"

(* ------------------------------ preloader ------------------------------ *)
\* variant: inserts the indicator without disabling the submit control
showPreloader_NoDisable(p) ==
    [p EXCEPT !.body = <<PreloaderEl>> \o @]

showPreloader(p) ==
    [p EXCEPT !.disabled = TRUE, !.body = <<PreloaderEl>> \o @]

\* index of the first element matching ".progress", 0 when there is none
querySelectorProgress(b) ==
    IF \E i \in 1..Len(b) : b[i] = PreloaderEl
    THEN CHOOSE i \in 1..Len(b) : b[i] = PreloaderEl /\ \A j \in 1..(i - 1) : b[j] # PreloaderEl
    ELSE 0

RemoveAt(s, i) == SubSeq(s, 1, i - 1) \o SubSeq(s, i + 1, Len(s))

removePreloader(p) ==
    LET preloaderEl == querySelectorProgress(p.body)
    IN  [p EXCEPT !.disabled = FALSE,
                  !.body = IF preloaderEl # 0 THEN RemoveAt(@, preloaderEl) ELSE @]

(* -------------------------------- render ------------------------------- *)
dummyImageUrl == "https://via.placeholder.com/450x337"

\* variant: no placeholder, as in the template of the simpler implementation
template_EmptyImage(item, index, length) ==
    [img |-> IF Falsy(item.urlToImage) THEN "" ELSE item.urlToImage,
     title |-> Str(item.title),
     description |-> Str(item.description),
     href |-> Str(item.url),
     link |-> "This is a link"]

template(item, index, length) ==
    [img |-> IF Falsy(item.urlToImage) THEN dummyImageUrl ELSE item.urlToImage,
     title |-> Str(item.title),
     description |-> Str(item.description),
     href |-> Str(item.url),
     link |-> "This is a link"]

\* variant: the row is closed after odd indices only
anotherTemplate_CloseOnOdd(item, index, length) ==
    [rowOpen |-> IF index % 2 = 0 THEN "<div class=\"row\">" ELSE "",
     img |-> IF Falsy(item.urlToImage) THEN dummyImageUrl ELSE item.urlToImage,
     title |-> Str(item.title),
     description |-> Str(item.description),
     href |-> Str(item.url),
     link |-> "This is a link",
     rowClose |-> IF index % 2 # 0 THEN "</div>" ELSE ""]

anotherTemplate(item, index, length) ==
    [rowOpen |-> IF index % 2 = 0 THEN "<div class=\"row\">" ELSE "",
     img |-> IF Falsy(item.urlToImage) THEN dummyImageUrl ELSE item.urlToImage,
     title |-> Str(item.title),
     description |-> Str(item.description),
     href |-> Str(item.url),
     link |-> "This is a link",
     rowClose |-> IF index % 2 # 0 \/ index = length - 1 THEN "</div>" ELSE ""]

\* variant: removes the first card only
clearContent_FirstOnly(p) ==
    [p EXCEPT !.content = IF Len(@) = 0 THEN @ ELSE Tail(@)]

\* variant: leaves the rendered cards in place
clearContent_Keep(p) == p

clearContent(p) == [p EXCEPT !.content = <<>>]

\* the fragment built by arr.map: one template per item, concatenated in order
RECURSIVE Fragment(_, _)
Fragment(arr, upto) ==
    IF upto = 0 THEN <<>>
    ELSE Fragment(arr, upto - 1) \o << template(arr[upto], upto - 1, Len(arr)) >>

\* variant: inserts the cards and leaves the preloader alone
renderContent_KeepPreloader(p, arr) ==
    LET fragment == Fragment(arr, Len(arr))
    IN  [p EXCEPT !.content = fragment \o @]

renderContent(p, arr) ==
    LET fragment == Fragment(arr, Len(arr))
        inserted == [p EXCEPT !.content = fragment \o @]
    IN  removePreloader(inserted)

(* ------------------------------- httpCall ------------------------------ *)
apiKey == ""
apiUrl == "https://news-api-v2.herokuapp.com"

toast(p, html) == [p EXCEPT !.toasts = Append(@, html)]

\* variant: the no-articles path also clears the content region
httpCallback_ClearOnEmpty(p, err, res) ==
    IF err # NoError
    THEN toast([removePreloader(p) EXCEPT !.disabled = FALSE], err)
    ELSE IF ~res.hasArticles
    THEN p
    ELSE IF Len(res.articles) = 0
    THEN toast([removePreloader(clearContent(p)) EXCEPT !.disabled = FALSE], <<"No news :(">>)
    ELSE LET cleared == IF Len(p.content) # 0 THEN clearContent(p) ELSE p
         IN  renderContent(cleared, res.articles)

httpCallback(p, err, res) ==
    IF err # NoError
    THEN toast([removePreloader(p) EXCEPT !.disabled = FALSE], err)
    ELSE IF ~res.hasArticles
    THEN p      \* res.articles.length throws a TypeError: nothing after it runs
    ELSE IF Len(res.articles) = 0
    THEN toast([removePreloader(p) EXCEPT !.disabled = FALSE], <<"No news :(">>)
    ELSE LET cleared == IF Len(p.content) # 0 THEN clearContent(p) ELSE p
         IN  renderContent(cleared, res.articles)

\* http().get: open and send the request; its listeners are XhrLoad and XhrError
get(p, url, origin, disabledBefore) ==
    [p EXCEPT !.requests = Append(@,
        [url |-> url, origin |-> origin, state |-> "sent", cbCalls |-> 0,
         disabledBefore |-> disabledBefore,
         disabledAtSend |-> p.disabled,
         firstChildAtSend |-> IF Len(p.body) > 0 THEN p.body[1] ELSE "none"])]

getTopHeadlines(p, country, category, origin) ==
    get(showPreloader(p),
        <<apiUrl, "/top-headlines?country=", country, "&category=", category, "&apiKey=", apiKey>>,
        origin, p.disabled)

\* variant: sends the request before showing the preloader
getEverything_SendFirst(p, query, origin) ==
    showPreloader(get(p, <<apiUrl, "/everything?q=", query, "&apiKey=", apiKey>>,
                      origin, p.disabled))

getEverything(p, query, origin) ==
    get(showPreloader(p),
        <<apiUrl, "/everything?q=", query, "&apiKey=", apiKey>>,
        origin, p.disabled)

\* variant: only status codes from 300 up are taken as errors
load_ErrorFrom300(p, r, status, responseText) ==
    LET done == [p EXCEPT !.requests[r].state = "loaded"]
        errText == <<"Error. Status code ">> \o NumberToString(status)
    IN  IF status >= 300
        THEN httpCallback([done EXCEPT !.requests[r].cbCalls = @ + 1,
                                       !.call = [err |-> errText, res |-> XhrObject]],
                          errText, XhrObject)
        ELSE LET response == JSONparse(responseText)
                 res == JsonResult(response)
             IN  IF response.threw THEN done
                 ELSE httpCallback([done EXCEPT !.requests[r].cbCalls = @ + 1,
                                                !.call = [err |-> NoError, res |-> res]],
                                   NoError, res)

\* the load listener of http().get, run for request r; p.call keeps the
\* arguments it passes to the callback
load(p, r, status, responseText) ==
    LET done == [p EXCEPT !.requests[r].state = "loaded"]
        errText == <<"Error. Status code ">> \o NumberToString(status)
    IN  IF (status \div 100) # 2
        THEN httpCallback([done EXCEPT !.requests[r].cbCalls = @ + 1,
                                       !.call = [err |-> errText, res |-> XhrObject]],
                          errText, XhrObject)
        ELSE LET response == JSONparse(responseText)
                 res == JsonResult(response)
             IN  IF response.threw THEN done
                 ELSE httpCallback([done EXCEPT !.requests[r].cbCalls = @ + 1,
                                                !.call = [err |-> NoError, res |-> res]],
                                   NoError, res)

\* variant: the error listener reports the failure to the callback
error_Callback(p, r) ==
    httpCallback([p EXCEPT !.requests[r].state = "failed", !.requests[r].cbCalls = @ + 1],
                 <<"error">>, XhrObject)

\* the error listener of http().get: console.log only
error(p, r) == [p EXCEPT !.requests[r].state = "failed"]

(* -------------------------------- events ------------------------------- *)
onFormSubmit(p, selectCountry, selectCategory, searchVal) ==
    IF searchVal = ""
    THEN getTopHeadlines(p, selectCountry, selectCategory, "submit")
    ELSE getEverything(p, searchVal, "submit")

onDomLoad(p) == getTopHeadlines(p, "ru", "technology", "domLoad")

(* ------------------------------- actions ------------------------------- *)
NoEvent == [op |-> "none", id |-> 0, status |-> 0, cbCalls |-> 0, err |-> NoError, res |-> NoResult]

NoCall == [op |-> "none"]

\* the page of the simpler implementation before any event
SimpleInit == [body |-> <<PageEl>>, content |-> <<>>, toasts |-> <<>>, sent |-> <<>>]

Init ==
    /\ body = <<PageEl>>
    /\ searchButtonDisabled = FALSE
    /\ newsContent = <<>>
    /\ toasts = <<>>
    /\ requests = <<>>
    /\ domLoaded = FALSE
    /\ lastEvent = NoEvent
    /\ lastGood = <<>>
    /\ searchForm \in [searchCountry : Countries, searchCategory : Categories, searchText : {""}]
    /\ viewCall = NoCall
    /\ simplePage = SimpleInit

DomLoad ==
    /\ ~domLoaded
    /\ Len(requests) < MaxRequests
    /\ SetPage(onDomLoad(Page))
    /\ domLoaded' = TRUE
    /\ UNCHANGED <<lastGood, searchForm, viewCall, simplePage>>
    /\ lastEvent' = [NoEvent EXCEPT !.op = "domLoad", !.id = Len(requests) + 1]

SubmitFrom(texts) ==
    /\ Len(requests) < MaxRequests
    /\ \E c \in Countries, g \in Categories, q \in texts :
          /\ searchForm' = [searchCountry |-> c, searchCategory |-> g, searchText |-> q]
          /\ SetPage(onFormSubmit(Page, c, g, q))
    /\ lastEvent' = [NoEvent EXCEPT !.op = "submit", !.id = Len(requests) + 1]
    /\ UNCHANGED <<domLoaded, lastGood, viewCall, simplePage>>

Submit == SubmitFrom(SearchTexts)

\* the API sends articles with a success status only
Answers(status, text) == status \in 200..299 \/ Len(text.articles) = 0

XhrLoadOf(statuses, texts) ==
    \E r \in 1..Len(requests), status \in statuses, text \in texts :
        /\ requests[r].state = "sent"
        /\ Answers(status, text)
        /\ LET q == load(Page, r, status, text)
           IN  /\ SetPage(q)
               /\ lastEvent' = [op |-> "load", id |-> r, status |-> status,
                                cbCalls |-> q.requests[r].cbCalls,
                                err |-> q.call.err, res |-> q.call.res]
        /\ lastGood' = IF status \in 200..299 /\ text.valid /\ text.hasArticles
                          /\ Len(text.articles) >= 1
                       THEN text.articles ELSE lastGood
        /\ UNCHANGED <<domLoaded, searchForm, viewCall, simplePage>>

XhrLoad == XhrLoadOf(Statuses, ResponseTexts)

XhrError ==
    \E r \in 1..Len(requests) :
        /\ requests[r].state = "sent"
        /\ SetPage(error(Page, r))
        /\ lastEvent' = [NoEvent EXCEPT !.op = "error", !.id = r]
        /\ UNCHANGED <<domLoaded, lastGood, searchForm, viewCall, simplePage>>

Next == DomLoad \/ Submit \/ XhrLoad \/ XhrError

Spec == Init /\ [][Next]_vars

(* ------- every request is answered by a load event, body well formed ---- *)
\* an articles array without articles or with one
WellFormedTexts == { t \in ResponseTexts : t.valid /\ t.hasArticles /\ Len(t.articles) <= 1 }

\* one status code the listener takes as success and one it takes as an error
AnsweredStatuses == {200, 300}

XhrLoadWellFormed == XhrLoadOf(AnsweredStatuses, WellFormedTexts)

NextAnswered == DomLoad \/ Submit \/ XhrLoadWellFormed

SpecAnswered == Init /\ [][NextAnswered]_vars /\ WF_vars(XhrLoadWellFormed)

(* ---------------- the view functions, called on their own --------------- *)
\* articles handed to the templates: with an image, without one, with an empty one
ViewItems ==
    Articles \cup { [title |-> "t3", description |-> "d3", url |-> "u3", urlToImage |-> ""] }

\* a document the program can have produced: up to MaxRequests indicators (the
\* control can be disabled only while one is present) and cards of one response
InitView ==
    /\ \E k \in 0..MaxRequests : body = [i \in 1..k |-> PreloaderEl] \o <<PageEl>>
    /\ searchButtonDisabled \in BOOLEAN
    /\ searchButtonDisabled => body[1] = PreloaderEl
    /\ \E a \in ArticleLists : newsContent = Fragment(a, Len(a))
    /\ toasts = <<>>
    /\ requests = <<>>
    /\ domLoaded = TRUE
    /\ lastEvent = NoEvent
    /\ lastGood = <<>>
    /\ searchForm \in [searchCountry : Countries, searchCategory : Categories, searchText : {""}]
    /\ viewCall = NoCall
    /\ simplePage = SimpleInit

CallTemplate ==
    /\ \E item \in ViewItems, length \in 1..MaxCount :
          \E index \in 0..(length - 1) :
             viewCall' = [op |-> "template", item |-> item, index |-> index, length |-> length,
                          out |-> template(item, index, length)]
    /\ UNCHANGED <<body, searchButtonDisabled, newsContent, toasts, requests, domLoaded,
                   lastEvent, lastGood, searchForm, simplePage>>

CallAnotherTemplate ==
    /\ \E item \in ViewItems, length \in 1..MaxCount :
          \E index \in 0..(length - 1) :
             viewCall' = [op |-> "anotherTemplate", item |-> item, index |-> index, length |-> length,
                          out |-> anotherTemplate(item, index, length)]
    /\ UNCHANGED <<body, searchButtonDisabled, newsContent, toasts, requests, domLoaded,
                   lastEvent, lastGood, searchForm, simplePage>>

CallClearContent ==
    /\ SetPage(clearContent(Page))
    /\ viewCall' = [op |-> "clearContent", cleared |-> Len(newsContent)]
    /\ UNCHANGED <<domLoaded, lastEvent, lastGood, searchForm, simplePage>>

CallRenderContent ==
    /\ \E arr \in ArticleLists :
          /\ Len(newsContent) + Len(arr) <= MaxCards
          /\ SetPage(renderContent(Page, arr))
          /\ viewCall' = [op |-> "renderContent", arr |-> arr, prev |-> viewCall.op,
                          cleared |-> IF viewCall.op = "clearContent" THEN viewCall.cleared ELSE 0]
    /\ UNCHANGED <<domLoaded, lastEvent, lastGood, searchForm, simplePage>>

NextView == CallTemplate \/ CallAnotherTemplate \/ CallClearContent \/ CallRenderContent

SpecView == InitView /\ [][NextView]_vars

(* ------------- the simpler implementation (app.js 33-172) --------------- *)
\* its functions work on simplePage; the source names them without a prefix
simple_showPreloader(sp) == [sp EXCEPT !.body = <<PreloaderEl>> \o @]

simple_removePreloader(sp) ==
    LET preloader == querySelectorProgress(sp.body)
    IN  [sp EXCEPT !.body = IF preloader # 0 THEN RemoveAt(@, preloader) ELSE @]

simple_template(item, index, length) ==
    [rowOpen |-> IF index % 2 = 0 THEN "<div class=\"row\">" ELSE "",
     img |-> IF Falsy(item.urlToImage) THEN "" ELSE item.urlToImage,
     title |-> Str(item.title),
     description |-> Str(item.description),
     href |-> Str(item.url),
     link |-> "This is a link",
     rowClose |-> IF index % 2 # 0 \/ index = length - 1 THEN "</div>" ELSE ""]

simple_clearContainer(sp) == [sp EXCEPT !.content = <<>>]

RECURSIVE simple_Fragment(_, _)
simple_Fragment(arr, upto) ==
    IF upto = 0 THEN <<>>
    ELSE simple_Fragment(arr, upto - 1) \o << simple_template(arr[upto], upto - 1, Len(arr)) >>

simple_render(sp, arr) ==
    LET removed == simple_removePreloader(sp)
    IN  [removed EXCEPT !.content = simple_Fragment(arr, Len(arr)) \o @]

\* load(err, res), the callback of the simpler implementation
simple_load(sp, err, res) ==
    IF err # NoError
    THEN [sp EXCEPT !.toasts = Append(@, err)]
    ELSE IF ~res.hasArticles
    THEN sp     \* res.articles.length throws a TypeError
    ELSE IF Len(res.articles) = 0
    THEN [sp EXCEPT !.toasts = Append(@, <<"No news :(">>)]
    ELSE LET cleared == IF Len(sp.content) # 0 THEN simple_clearContainer(sp) ELSE sp
         IN  simple_render(cleared, res.articles)

\* the load listener of its http().get
simple_xhrLoad(sp, status, responseText) ==
    IF (status \div 100) # 2
    THEN simple_load(sp, <<"Error. Status code ">> \o NumberToString(status), XhrObject)
    ELSE LET response == JSONparse(responseText)
         IN  IF response.threw THEN sp
             ELSE simple_load(sp, NoError, JsonResult(response))

\* getHttpRequest() shows the preloader; the method called on it sends the request
simple_getTopHeadlines(sp, country) ==
    [simple_showPreloader(sp) EXCEPT !.sent = Append(@,
        <<apiUrl, "/top-headlines?country=", country, "&apiKey=", apiKey>>)]

simple_getEverything(sp, query) ==
    [simple_showPreloader(sp) EXCEPT !.sent = Append(@,
        <<apiUrl, "/everything?q=", query, "&apiKey=", apiKey>>)]

simple_onSubmit(sp, selectVal, searchVal) ==
    IF searchVal = ""
    THEN simple_getTopHeadlines(sp, selectVal)
    ELSE simple_getEverything(sp, searchVal)

simple_onDomLoad(sp) == simple_getEverything(sp, "Nur-Sultan")

\* both implementations on their own page, given the same events
BothDomLoad ==
    /\ ~domLoaded
    /\ Len(requests) < MaxRequests
    /\ SetPage(onDomLoad(Page))
    /\ simplePage' = simple_onDomLoad(simplePage)
    /\ domLoaded' = TRUE
    /\ lastEvent' = [NoEvent EXCEPT !.op = "domLoad", !.id = Len(requests) + 1]
    /\ UNCHANGED <<lastGood, searchForm, viewCall>>

BothSubmit ==
    /\ Len(requests) < MaxRequests
    /\ \E c \in Countries, g \in Categories, q \in SearchTexts :
          /\ searchForm' = [searchCountry |-> c, searchCategory |-> g, searchText |-> q]
          /\ SetPage(onFormSubmit(Page, c, g, q))
          /\ simplePage' = simple_onSubmit(simplePage, c, q)
    /\ lastEvent' = [NoEvent EXCEPT !.op = "submit", !.id = Len(requests) + 1]
    /\ UNCHANGED <<domLoaded, lastGood, viewCall>>

BothXhrLoad ==
    \E r \in 1..Len(requests), status \in Statuses, text \in ResponseTexts :
        /\ requests[r].state = "sent"
        /\ Answers(status, text)
        /\ LET q == load(Page, r, status, text)
           IN  /\ SetPage(q)
               /\ lastEvent' = [op |-> "load", id |-> r, status |-> status,
                                cbCalls |-> q.requests[r].cbCalls,
                                err |-> q.call.err, res |-> q.call.res]
        /\ simplePage' = simple_xhrLoad(simplePage, status, text)
        /\ lastGood' = IF status \in 200..299 /\ text.valid /\ text.hasArticles
                          /\ Len(text.articles) >= 1
                       THEN text.articles ELSE lastGood
        /\ UNCHANGED <<domLoaded, searchForm, viewCall>>

BothXhrError ==
    \E r \in 1..Len(requests) :
        /\ requests[r].state = "sent"
        /\ SetPage(error(Page, r))
        /\ lastEvent' = [NoEvent EXCEPT !.op = "error", !.id = r]
        /\ UNCHANGED <<domLoaded, lastGood, searchForm, viewCall, simplePage>>

NextBoth == BothDomLoad \/ BothSubmit \/ BothXhrLoad \/ BothXhrError

SpecBoth == Init /\ [][NextBoth]_vars

\* the same program with the user typing any text into the search input
SubmitTyped == SubmitFrom(TypedTexts)

NextTyped == DomLoad \/ SubmitTyped \/ XhrLoad \/ XhrError

SpecTyped == Init /\ [][NextTyped]_vars

(* ----------------------- observations on a state ----------------------- *)
NumPreloaders == Cardinality({ i \in 1..Len(body) : body[i] = PreloaderEl })

InFlight == { r \in 1..Len(requests) : requests[r].state = "sent" }

Is2xx(status) == status \in 200..299

\* the last handler was a load listener whose callback took the error path
LastWasErrorPath == lastEvent.op = "load" /\ lastEvent.cbCalls = 1 /\ lastEvent.err # NoError

\* ... the no-articles path
LastWasEmptyPath ==
    /\ lastEvent.op = "load" /\ lastEvent.cbCalls = 1 /\ lastEvent.err = NoError
    /\ lastEvent.res.hasArticles /\ Len(lastEvent.res.articles) = 0

\* ... the render path
LastWasRenderPath ==
    /\ lastEvent.op = "load" /\ lastEvent.cbCalls = 1 /\ lastEvent.err = NoError
    /\ lastEvent.res.hasArticles /\ Len(lastEvent.res.articles) >= 1

\* this step is the load listener of request lastEvent'.id
LoadStep ==
    /\ lastEvent'.op = "load"
    /\ requests[lastEvent'.id].state = "sent"
    /\ requests'[lastEvent'.id].state = "loaded"

\* the decimal number written by a sequence of digit characters, -1 if it is none
DigitValue(c) ==
    CASE c = "0" -> 0 [] c = "1" -> 1 [] c = "2" -> 2 [] c = "3" -> 3 [] c = "4" -> 4
      [] c = "5" -> 5 [] c = "6" -> 6 [] c = "7" -> 7 [] c = "8" -> 8 [] c = "9" -> 9
      [] OTHER -> -1

RECURSIVE DecimalValue(_)
DecimalValue(t) ==
    IF Len(t) = 0 THEN -1
    ELSE IF DigitValue(t[Len(t)]) = -1 THEN -1
    ELSE IF Len(t) = 1 THEN DigitValue(t[1])
    ELSE LET high == DecimalValue(SubSeq(t, 1, Len(t) - 1))
         IN  IF high = -1 THEN -1 ELSE 10 * high + DigitValue(t[Len(t)])

ContainsNumber(text, n) ==
    \E i \in 1..Len(text), j \in 1..Len(text) :
        /\ i <= j
        /\ (i = 1 \/ DigitValue(text[i - 1]) = -1)
        /\ (j = Len(text) \/ DigitValue(text[j + 1]) = -1)
        /\ DecimalValue(SubSeq(text, i, j)) = n

(* ------------------------------- claims -------------------------------- *)

\* C1: the document never holds more than one loading indicator: exactly one
\* while a request is loading and none otherwise.
C1_OneLoadingIndicator ==
    NumPreloaders = (IF InFlight # {} THEN 1 ELSE 0)

\* C2: right after the response handler took the error path or the
\* no-articles path, no loading indicator is present and the submit control
\* is enabled, whatever requests were issued before.
C2_ErrorPathsRestoreUI ==
    (LastWasErrorPath \/ LastWasEmptyPath)
        => (NumPreloaders = 0 /\ ~searchButtonDisabled)

\* C3: the content region holds exactly the cards of the most recently
\* arrived successful non-empty response, in its order (last response wins,
\* no mixture, no leftovers).
C3_LastResponseWins ==
    /\ Len(newsContent) = Len(lastGood)
    /\ \A i \in 1..Len(lastGood) :
          /\ newsContent[i].title = lastGood[i].title
          /\ newsContent[i].href = lastGood[i].url

\* C3 witness: the first request was answered after the second (so the second
\* was issued while the first was loading), both with articles, and the
\* content region had cards before the last answer replaced them.
C3_Witness ==
    /\ Len(requests) >= 2
    /\ requests[1].state = "loaded" /\ requests[2].state = "loaded"
    /\ requests[1].cbCalls = 1 /\ requests[2].cbCalls = 1
    /\ toasts = <<>>
    /\ LastWasRenderPath /\ lastEvent.id = 1
    /\ Len(newsContent) >= 1

\* C4 as stated: if form submissions occur only while the submit control is
\* enabled, at most one request is in flight.
C4_SubmitsWhileEnabled ==
    (\A r \in 1..Len(requests) :
        requests[r].origin = "submit" => ~requests[r].disabledBefore)
        => Cardinality(InFlight) <= 1

\* C4 amended: if every request - the page-load fetch and each form
\* submission - is issued while the submit control is enabled, at most one
\* request is in flight.
C4_IssuedWhileEnabled ==
    (\A r \in 1..Len(requests) : ~requests[r].disabledBefore)
        => Cardinality(InFlight) <= 1

\* C4 witness: a second request issued with the control enabled again, after
\* the first one was answered.
C4_Witness ==
    /\ Len(requests) >= 2
    /\ \A r \in 1..Len(requests) : ~requests[r].disabledBefore
    /\ requests[1].state = "loaded"
    /\ InFlight = {2}

\* C5: for every request whose load event fires the callback is invoked
\* exactly once: with no error and the parsed body for a status in 200..299,
\* with an error carrying the status code and no parsed payload otherwise.
C5_CallbackExactlyOnce ==
    lastEvent.op = "load" =>
        /\ lastEvent.cbCalls = 1
        /\ Is2xx(lastEvent.status)
              => (lastEvent.err = NoError /\ lastEvent.res.kind = "json")
        /\ ~Is2xx(lastEvent.status)
              => (ContainsNumber(lastEvent.err, lastEvent.status) /\ lastEvent.res.kind # "json")

\* C6: after a transport failure the callback is never invoked for that
\* request, and as long as no other request is answered the loading indicator
\* stays present and the submit control stays disabled.
C6_TransportFailureHangs ==
    \A r \in 1..Len(requests) :
        requests[r].state = "failed" =>
            /\ requests[r].cbCalls = 0
            /\ (\A q \in 1..Len(requests) : requests[q].state # "loaded")
                  => (NumPreloaders >= 1 /\ searchButtonDisabled)

\* C6 witness: the error listener has just run and no request was answered.
C6_Witness ==
    /\ lastEvent.op = "error"
    /\ requests[lastEvent.id].state = "failed"
    /\ \A q \in 1..Len(requests) : requests[q].state # "loaded"
    /\ NumPreloaders >= 1 /\ searchButtonDisabled

\* C7: renderContent puts one card per article, in input order, at the start
\* of the content region, and no loading indicator is left when it returns.
C7_RenderContent ==
    LastWasRenderPath =>
        /\ Len(newsContent) >= Len(lastEvent.res.articles)
        /\ \A i \in 1..Len(lastEvent.res.articles) :
              /\ newsContent[i].title = lastEvent.res.articles[i].title
              /\ newsContent[i].href = lastEvent.res.articles[i].url
        /\ NumPreloaders = 0

\* C8: the response handler changes the content region only on the non-empty
\* success path: after an error or an empty articles sequence the content
\* region is what it was before.
C8_ContentFrame ==
    [][ \/ newsContent' = newsContent
        \/ /\ LoadStep
           /\ Is2xx(lastEvent'.status)
           /\ lastEvent'.err = NoError
           /\ Len(lastEvent'.res.articles) >= 1 ]_vars

\* C8 witness: cards rendered earlier are still displayed after a response
\* with an empty articles sequence or an error.
C8_Witness ==
    /\ LastWasErrorPath \/ LastWasEmptyPath
    /\ Len(newsContent) >= 1

\* C9: a response with a status code s outside 200..299 shows exactly one
\* notification, whose text contains s, renders no articles and leaves the
\* submit control enabled.
C9_ErrorStatusNotified ==
    [][ (LoadStep /\ ~Is2xx(lastEvent'.status)) =>
            /\ Len(toasts') = Len(toasts) + 1
            /\ SubSeq(toasts', 1, Len(toasts)) = toasts
            /\ ContainsNumber(toasts'[Len(toasts')], lastEvent'.status)
            /\ newsContent' = newsContent
            /\ ~searchButtonDisabled' ]_vars

\* C9 witness: a load event with a status outside 200..299 was just handled.
C9_Witness ==
    /\ lastEvent.op = "load"
    /\ ~Is2xx(lastEvent.status)
    /\ Len(toasts) >= 1
    /\ ContainsNumber(toasts[Len(toasts)], lastEvent.status)

\* C10: at the moment a request is sent, by either fetch operation, the
\* submit control is disabled and a loading indicator is the first child of
\* the document body.
C10_LoadingBeforeSend ==
    \A r \in 1..Len(requests) :
        /\ requests[r].disabledAtSend
        /\ requests[r].firstChildAtSend = PreloaderEl

\* C10 witness: both fetch operations have sent a request.
C10_Witness ==
    /\ \E r \in 1..Len(requests) : requests[r].url[2] = "/top-headlines?country="
    /\ \E r \in 1..Len(requests) : requests[r].url[2] = "/everything?q="

\* C11: removePreloader is idempotent and safe without an indicator: with no
\* loading indicator present it changes nothing but leaves the submit control
\* enabled, and calling it twice gives the same state as calling it once.
C11_RemovePreloaderIdempotent ==
    /\ NumPreloaders = 0 => removePreloader(Page) = [Page EXCEPT !.disabled = FALSE]
    /\ removePreloader(removePreloader(Page)) = removePreloader(Page)

(* ----------------------- the request URL as sent ----------------------- *)
\* the characters of the strings the URL is built from, cut at "?", "&", "="
Tokens(str) ==
    CASE str = "" -> <<>>
      [] str = "/top-headlines?country=" -> <<"/top-headlines", "?", "country", "=">>
      [] str = "/everything?q=" -> <<"/everything", "?", "q", "=">>
      [] str = "&category=" -> <<"&", "category", "=">>
      [] str = "&apiKey=" -> <<"&", "apiKey", "=">>
      [] str = "bitcoin&country=ru" -> <<"bitcoin", "&", "country", "=", "ru">>
      [] OTHER -> <<str>>

\* the URL string: the parts of the template literal, concatenated
RECURSIVE UrlText(_)
UrlText(parts) ==
    IF Len(parts) = 0 THEN <<>> ELSE Tokens(Head(parts)) \o UrlText(Tail(parts))

IndexOf(t, c) == IF \E i \in 1..Len(t) : t[i] = c
                 THEN CHOOSE i \in 1..Len(t) : t[i] = c /\ \A j \in 1..(i - 1) : t[j] # c
                 ELSE Len(t) + 1

\* what the server reads from it: the path, and the query string after "?"
UrlPath(t) == SubSeq(t, 2, IndexOf(t, "?") - 1)
UrlQuery(t) == SubSeq(t, IndexOf(t, "?") + 1, Len(t))

\* positions in the query string where a parameter starts
ParamStarts(q) == { i \in 1..Len(q) : i = 1 \/ q[i - 1] = "&" }
ParamNames(q) == { q[i] : i \in ParamStarts(q) }

\* the value of the first parameter of that name: what follows "name=" up to the next "&"
ParamValue(q, name) ==
    LET i == CHOOSE k \in ParamStarts(q) : q[k] = name /\ \A j \in ParamStarts(q) : q[j] = name => k <= j
        rest == SubSeq(q, i + 2, Len(q))
    IN  SubSeq(rest, 1, IndexOf(rest, "&") - 1)

\* this step is a form submission
SubmitStep == lastEvent'.op = "submit" /\ lastEvent' # lastEvent

\* C12: each form submission issues exactly one request; with an empty text
\* input it is a top-headlines request carrying the selected country and
\* category and no free-text query, otherwise an everything request carrying
\* the free-text query and neither country nor category.
C12_TwoQueryVariants ==
    [][ SubmitStep =>
          /\ Len(requests') = Len(requests) + 1
          /\ SubSeq(requests', 1, Len(requests)) = requests
          /\ LET t == UrlText(requests'[Len(requests')].url)
                 q == UrlQuery(t)
             IN  IF searchForm'.searchText = ""
                 THEN /\ UrlPath(t) = <<"/top-headlines">>
                      /\ {"country", "category"} \subseteq ParamNames(q)
                      /\ ParamValue(q, "country") = <<searchForm'.searchCountry>>
                      /\ ParamValue(q, "category") = <<searchForm'.searchCategory>>
                      /\ "q" \notin ParamNames(q)
                 ELSE /\ UrlPath(t) = <<"/everything">>
                      /\ "q" \in ParamNames(q)
                      /\ ParamValue(q, "q") = Tokens(searchForm'.searchText)
                      /\ "country" \notin ParamNames(q)
                      /\ "category" \notin ParamNames(q) ]_vars

\* C13: the row-wrapping template opens a row iff the index is even and
\* closes it iff the index is odd or the last one; for 5 items the opens are
\* at indices 0, 2, 4 and the closes at 1, 3, 4.
C13_RowMarkers ==
    viewCall.op = "anotherTemplate" =>
        LET i == viewCall.index
            n == viewCall.length
            opens == viewCall.out.rowOpen # ""
            closes == viewCall.out.rowClose # ""
            even == \E k \in 0..i : i = 2 * k
        IN  /\ viewCall.out.rowOpen \in {"", "<div class=\"row\">"}
            /\ viewCall.out.rowClose \in {"", "</div>"}
            /\ opens <=> even
            /\ closes <=> (~even \/ i = n - 1)
            /\ n = 5 => /\ opens <=> i \in {0, 2, 4}
                        /\ closes <=> i \in {1, 3, 4}

\* C13 witness: the last of 5 items, at an even index, opens and closes its row.
C13_Witness ==
    /\ viewCall.op = "anotherTemplate"
    /\ viewCall.length = 5 /\ viewCall.index = 4
    /\ viewCall.out.rowOpen # "" /\ viewCall.out.rowClose # ""

\* C14: clearContent followed by renderContent of an empty array leaves the
\* content region empty, whatever it held before.
C14_ClearThenRenderNothing ==
    (viewCall.op = "renderContent" /\ viewCall.prev = "clearContent" /\ Len(viewCall.arr) = 0)
        => newsContent = <<>>

\* C14 witness: the content region held cards, was cleared, and an empty
\* array was rendered.
C14_Witness ==
    /\ viewCall.op = "renderContent" /\ viewCall.prev = "clearContent"
    /\ Len(viewCall.arr) = 0
    /\ viewCall.cleared >= 2
    /\ newsContent = <<>>

\* C15: the card of an article whose urlToImage is absent or empty carries
\* the placeholder image URL, never an empty reference; the card of an
\* article with a urlToImage carries that URL.
C15_PlaceholderImage ==
    viewCall.op \in {"template", "anotherTemplate"} =>
        /\ viewCall.out.img # ""
        /\ viewCall.item.urlToImage \in {NoValue, ""}
              => viewCall.out.img = "https://via.placeholder.com/450x337"
        /\ viewCall.item.urlToImage \notin {NoValue, ""}
              => viewCall.out.img = viewCall.item.urlToImage

\* C15 witness: the live template was given an article with an empty urlToImage.
C15_Witness ==
    /\ viewCall.op = "template"
    /\ viewCall.item.urlToImage = ""
    /\ viewCall.out.img = "https://via.placeholder.com/450x337"

\* a request whose response the handler has not been given (yet, or ever)
Unhandled == { r \in 1..Len(requests) : requests[r].cbCalls = 0 }

\* C16: the submit control is disabled iff a loading indicator is present,
\* and both hold iff some issued request has not had its response handled.
C16_ReflectionsAgree ==
    /\ searchButtonDisabled <=> NumPreloaders >= 1
    /\ searchButtonDisabled <=> Unhandled # {}

\* C17: when every issued request is answered by a load event with a well
\* formed body, then whenever no request is outstanding no loading indicator
\* is present and the submit control is enabled, and outstanding requests
\* lead to that state, for any number and interleaving of requests.
C17_EventuallyIdle ==
    /\ [](InFlight = {} => (NumPreloaders = 0 /\ ~searchButtonDisabled))
    /\ (InFlight # {}) ~> (InFlight = {} /\ NumPreloaders = 0 /\ ~searchButtonDisabled)

\* C17 witness: two overlapping requests (the first answered last), both
\* answered, and the page idle again.
C17_Witness ==
    /\ Len(requests) >= 2
    /\ InFlight = {}
    /\ lastEvent.op = "load" /\ lastEvent.id = 1
    /\ NumPreloaders = 0 /\ ~searchButtonDisabled

\* requests whose load event has not fired
NotLoaded == { r \in 1..Len(requests) : requests[r].state # "loaded" }

\* C18: every load event with a 2xx status takes the UI out of the loading
\* state whatever the body is: the indicator shown for that request is
\* removed and the submit control is enabled.
C18_2xxLeavesLoading ==
    (lastEvent.op = "load" /\ Is2xx(lastEvent.status)) =>
        /\ NumPreloaders <= Cardinality(NotLoaded)
        /\ ~searchButtonDisabled

SimplePreloaders ==
    Cardinality({ i \in 1..Len(simplePage.body) : simplePage.body[i] = PreloaderEl })

\* C19: after handling the same response (error, empty or non-empty) both
\* implementations leave the same number of loading indicators in their
\* document, and none after a single request.
C19_SameIndicators ==
    (LastWasErrorPath \/ LastWasEmptyPath \/ LastWasRenderPath) =>
        /\ NumPreloaders = SimplePreloaders
        /\ Len(requests) = 1 => (NumPreloaders = 0 /\ SimplePreloaders = 0)

====
